---- MODULE Spec2Model ----
(***************************************************************************)
(* Market Gap Hunter backend: the TTL file cache (cache_manager.py), the   *)
(* capped analysis history (history_manager.py), the opportunity scoring   *)
(* of analyze_market and the relevance ranking of autocomplete (main.py).  *)
(*                                                                         *)
(* Each subsystem has its own specification over the shared variables:     *)
(*   SpecCache    CacheManager get / set / clear_expired / clear_all       *)
(*   SpecStale    a get whose read and unlink a set can come between       *)
(*   SpecHistory  HistoryManager add_analysis / clear_history              *)
(*   SpecQuery    the same with get_history, get_location_history and      *)
(*                get_statistics, on short logs                            *)
(*   SpecLookup   get_location_history and get_statistics on short logs    *)
(*   SpecRace     two add_analysis calls whose loads and saves interleave  *)
(*   SpecAnalyze  analyze_market: cache lookup, fetch, classify, score,    *)
(*                cache store, history append                              *)
(*   SpecServe    analyze_market calls in sequence, fetches that fail      *)
(*   SpecNearby   the same for requests on either side of the equator      *)
(*   SpecRank     autocomplete (exclude, score, sort, truncate)            *)
(***************************************************************************)
EXTENDS Integers, Sequences, FiniteSets, TLC

VARIABLES
    now,            \* datetime.now(), in ticks of 24 hours
    cache_dir,      \* the cache directory: derived key -> cache file
    cacheOp,        \* the CacheManager call made at time `now`, and what it returned
    setLog,         \* history variable: per parameter set, the last completed set
    reader,         \* a get that runs beside other calls: what it has read, and
                    \* where it stands
    fetched,        \* what the three geodata fetches of one analyze_market call give
    pc,             \* where that call stands: "start" or "done"
    result,         \* the result dict the call builds
    request,        \* the AnalyzeRequest of that call
    history_file,   \* analysis_history.json
    histOp,         \* the last HistoryManager call and what it returned
    appended,       \* history variable: the entries appended since the log was
                    \* empty, kept while no load or save has failed
    faulted,        \* history variable: a load or save of the log has failed
    appendCount,    \* number of add_analysis calls made
    writers,        \* two add_analysis calls run side by side: per call, what it
                    \* has loaded and where it stands
    schedule,       \* history variable: the loads and saves of those calls, in order
    query,          \* the query text of one autocomplete call
    response,       \* what the geocoder answers: status code and candidate list
    scored_results, \* the scored candidates of that call
    suggestions,    \* what the call returns
    rankPc          \* where that call stands, and the return it took

cacheVars == <<cache_dir, cacheOp, setLog, reader>>

analyzeVars == <<fetched, pc, result, request>>

historyVars == <<history_file, histOp, appended, faulted, appendCount, writers, schedule>>

rankVars == <<query, response, scored_results, suggestions, rankPc>>

vars ==
    <<now, cache_dir, cacheOp, setLog, reader, fetched, pc, result, request, history_file, histOp,
      appended, faulted, appendCount, writers, schedule, query, response,
      scored_results, suggestions, rankPc>>

(***************************************************************************)
(* Bounds of the model.                                                    *)
(***************************************************************************)
MaxTime == 2
MaxSupply == 3
MaxRows == 1
MaxConstruction == 6
MaxAppends == 2
MaxStamp == 1
MaxVaried == 1
MaxBackground == 11

(***************************************************************************)
(* CacheManager (cache_manager.py).                                        *)
(***************************************************************************)

\* self.ttl = timedelta(hours=ttl_hours), ttl_hours = 24 (main.py:31): one
\* tick of `now` is 24 hours, so the TTL is 1 tick.
ttl == 1

\* The keyword arguments analyze_market passes to cache.get / cache.set.
ParamNames == {"lat", "lon", "business_type", "radius"}

\* The values of each argument, given as json.dumps renders them.
ParamValues(name) ==
    CASE name = "lat" -> {"13.7563", "13.7564"}
      [] name = "lon" -> {"100.5018"}
      [] name = "business_type" -> {"\"Cafe\""}
      [] name = "radius" -> {"1000"}

\* A kwargs dict: name-value pairs in insertion order, each name once.
ParamMappings ==
    {kw : kw \in
        {m \in [1..4 -> UNION {{<<n, v>> : v \in ParamValues(n)} : n \in ParamNames}] :
            \A i, j \in 1..4 : i # j => m[i][1] # m[j][1]}}

\* The name-value pairs of a kwargs dict, without their order.
Pairs(kwargs) == {kwargs[i] : i \in 1..Len(kwargs)}

ParamSets == {Pairs(kw) : kw \in ParamMappings}

\* Python's order on the argument names (str comparison).
NameRank(n) ==
    CASE n = "business_type" -> 1
      [] n = "lat" -> 2
      [] n = "lon" -> 3
      [] n = "radius" -> 4

RECURSIVE InsertSorted(_, _)
InsertSorted(p, s) ==
    IF s = <<>> THEN <<p>>
    ELSE IF NameRank(p[1]) < NameRank(Head(s)[1]) THEN <<p>> \o s
    ELSE <<Head(s)>> \o InsertSorted(p, Tail(s))

\* sorted(kwargs.items()): the pairs ordered by name (names are unique).
RECURSIVE SortedItems(_)
SortedItems(items) ==
    IF items = <<>> THEN <<>>
    ELSE InsertSorted(Head(items), SortedItems(Tail(items)))

\* json.dumps of a list of pairs: its tokens, in the order of the list.
RECURSIVE JsonDumps(_)
JsonDumps(items) ==
    IF items = <<>> THEN <<>>
    ELSE <<Head(items)[1], Head(items)[2]>> \o JsonDumps(Tail(items))

\* hashlib.sha256(...).hexdigest(), taken as collision free: the digest is
\* represented by the text it digests.
Sha256Hex(text) == text

\* A plausible slip: the pairs are hashed in insertion order.
GenerateKeyUnsorted(kwargs) == Sha256Hex(JsonDumps(kwargs))

\* CacheManager._generate_key
GenerateKey(kwargs) == Sha256Hex(JsonDumps(SortedItems(kwargs)))

\* The kwargs analyze_market builds (main.py:341-346) for two requests a
\* little north and a little south of the equator.
EquatorMappings ==
    {<< <<"lat", "0.0">>, <<"lon", "100.5018">>,
        <<"business_type", "\"Cafe\"">>, <<"radius", "1000">> >>,
     << <<"lat", "-0.0">>, <<"lon", "100.5018">>,
        <<"business_type", "\"Cafe\"">>, <<"radius", "1000">> >>}

\* The key of every kwargs dict of the model, derived once.
KeyOf == [kw \in ParamMappings \cup EquatorMappings |-> GenerateKey(kw)]

\* Whether a kwargs dict was built in sorted order (for the history variables).
InOrder == [kw \in ParamMappings \cup EquatorMappings |-> kw = SortedItems(kw)]

Keys == {KeyOf[kw] : kw \in ParamMappings \cup EquatorMappings}

\* The payloads stored: results of analyze_market (JSON objects with string
\* keys, which json.dump / json.load give back unchanged).
Payloads == {"result_a", "result_b"}

\* A cache file <key>.json: missing, unparsable, or a record
\* {timestamp, params, data}.
NoFile == [state |-> "absent", timestamp |-> 0, data |-> ""]
CorruptFile == [state |-> "corrupt", timestamp |-> 0, data |-> ""]
CacheFile(t, d) == [state |-> "valid", timestamp |-> t, data |-> d]

\* A plausible slip: an entry exactly ttl old counts as expired.
IsExpiredAtTtl(cached_time, t) == t - cached_time >= ttl

\* datetime.now() - cached_time > self.ttl
IsExpired(cached_time, t) == t - cached_time > ttl

NoCacheOp ==
    [kind |-> "none", pairs |-> {}, key |-> <<>>, io |-> "ok", hit |-> FALSE,
     data |-> "", count |-> 0, inOrder |-> TRUE]

NoSet == [done |-> FALSE, key |-> <<>>, data |-> "", at |-> 0, inOrder |-> TRUE]

\* CacheManager.get on the directory dir at time t: the directory it leaves
\* and what it returns. io = "fail": open / json.load raises on an existing
\* file.
GetCall(dir, kwargs, io, t) ==
    LET cache_key == KeyOf[kwargs]
        f == dir[cache_key]
        raised == f.state = "corrupt" \/ io = "fail"
        expired == ~raised /\ f.state = "valid" /\ IsExpired(f.timestamp, t)
        returned == f.state = "valid" /\ ~raised /\ ~expired
    IN  [dir |-> IF expired THEN [dir EXCEPT ![cache_key] = NoFile] ELSE dir,
         op |-> [kind |-> "get", pairs |-> Pairs(kwargs), key |-> cache_key,
                 io |-> IF f.state = "absent" THEN "ok" ELSE io,
                 hit |-> returned,
                 data |-> IF returned THEN f.data ELSE "",
                 count |-> 0,
                 inOrder |-> InOrder[kwargs]]]

Get(kwargs, io) ==
    \E call \in {GetCall(cache_dir, kwargs, io, now)} :
        /\ cache_dir' = call.dir
        /\ cacheOp' = call.op
        /\ UNCHANGED <<now, setLog, reader>>

\* CacheManager.set on the directory dir at time t. outcome = "ok": the
\* record is written; "open_fail": open raises and the file is left as it
\* was; "dump_fail": open(.., 'w') has truncated the file and json.dump
\* raises before the record is complete.
SetCall(dir, log, data, kwargs, outcome, t) ==
    LET cache_key == KeyOf[kwargs]
    IN  [dir |->
            CASE outcome = "ok" -> [dir EXCEPT ![cache_key] = CacheFile(t, data)]
              [] outcome = "open_fail" -> dir
              [] outcome = "dump_fail" -> [dir EXCEPT ![cache_key] = CorruptFile],
         op |-> [NoCacheOp EXCEPT !.kind = "set", !.pairs = Pairs(kwargs),
                                  !.key = cache_key, !.io = outcome],
         log |->
            CASE outcome = "ok" ->
                    [log EXCEPT ![Pairs(kwargs)] =
                        [done |-> TRUE, key |-> cache_key, data |-> data, at |-> t,
                         inOrder |-> InOrder[kwargs]]]
              [] outcome = "open_fail" -> log
              [] outcome = "dump_fail" -> [log EXCEPT ![Pairs(kwargs)] = NoSet]]

Set(data, kwargs, outcome) ==
    \E call \in {SetCall(cache_dir, setLog, data, kwargs, outcome, now)} :
        /\ cache_dir' = call.dir
        /\ cacheOp' = call.op
        /\ setLog' = call.log
        /\ UNCHANGED <<now, reader>>

\* A plausible slip: an entry exactly ttl old is unlinked too.
ExpiredKeysAtTtl(failing) ==
    {k \in Keys \ failing :
        cache_dir[k].state = "valid" /\ now - cache_dir[k].timestamp >= ttl}

\* The files clear_expired unlinks: the readable ones older than ttl. A file
\* it cannot parse, or whose open or unlink raises (failing), raises inside
\* the loop and is passed over.
ExpiredKeys(failing) ==
    {k \in Keys \ failing :
        cache_dir[k].state = "valid" /\ IsExpired(cache_dir[k].timestamp, now)}

\* CacheManager.clear_expired
ClearExpired(failing) ==
    \E expired \in {ExpiredKeys(failing)} :
        /\ cache_dir' = [k \in Keys |-> IF k \in expired THEN NoFile ELSE cache_dir[k]]
        /\ cacheOp' = [NoCacheOp EXCEPT
                         !.kind = "clear_expired",
                         !.io = IF \E k \in failing : cache_dir[k].state # "absent"
                                THEN "fail" ELSE "ok",
                         !.count = Cardinality(expired)]
        /\ UNCHANGED <<now, setLog, reader>>

\* CacheManager.clear_all
ClearAll ==
    /\ cache_dir' = [k \in Keys |-> NoFile]
    /\ cacheOp' = [NoCacheOp EXCEPT !.kind = "clear_all",
                     !.count = Cardinality({k \in Keys : cache_dir[k].state # "absent"})]
    /\ setLog' = [ps \in ParamSets |-> NoSet]
    /\ UNCHANGED <<now, reader>>

\* No get is under way.
NoReader == [pc |-> "idle", kwargs |-> <<>>]

CacheInit ==
    /\ cache_dir = [k \in Keys |-> NoFile]
    /\ cacheOp = NoCacheOp
    /\ setLog = [ps \in ParamSets |-> NoSet]
    /\ reader = NoReader

CacheGet ==
    /\ \E kw \in ParamMappings, io \in {"ok", "fail"} : Get(kw, io)
    /\ UNCHANGED <<analyzeVars, historyVars, rankVars>>

CacheSet ==
    /\ \E kw \in ParamMappings, d \in Payloads : Set(d, kw, "ok")
    /\ UNCHANGED <<analyzeVars, historyVars, rankVars>>

\* A set whose write fails: the payload plays no part.
CacheSetFails ==
    /\ \E kw \in ParamMappings, outcome \in {"open_fail", "dump_fail"} :
            Set("result_a", kw, outcome)
    /\ UNCHANGED <<analyzeVars, historyVars, rankVars>>

\* A clear_expired during which no file operation raises, or those on one
\* file do.
CacheClearExpired ==
    /\ \E failing \in {{}} \cup {{k} : k \in Keys} : ClearExpired(failing)
    /\ UNCHANGED <<analyzeVars, historyVars, rankVars>>

CacheClearAll == ClearAll /\ UNCHANGED <<analyzeVars, historyVars, rankVars>>

\* A get that runs beside other calls, up to its decision on the record it
\* read (cache_manager.py:25-37): on a record older than ttl it goes on to
\* the unlink, in every other case it returns as Get does.
GetRead ==
    /\ reader.pc = "idle"
    /\ \E kw \in ParamMappings :
            IF /\ cache_dir[KeyOf[kw]].state = "valid"
               /\ IsExpired(cache_dir[KeyOf[kw]].timestamp, now)
            THEN /\ reader' = [pc |-> "expired", kwargs |-> kw]
                 /\ UNCHANGED <<now, cache_dir, cacheOp, setLog>>
            ELSE Get(kw, "ok")
    /\ UNCHANGED <<analyzeVars, historyVars, rankVars>>

\* The rest of that get: cache_file.unlink() removes whatever file bears the
\* key's name by now (when none does, unlink raises and the except returns
\* None as well), and get returns None.
GetUnlink ==
    /\ reader.pc = "expired"
    /\ cache_dir' = [cache_dir EXCEPT ![KeyOf[reader.kwargs]] = NoFile]
    /\ cacheOp' = [NoCacheOp EXCEPT !.kind = "get",
                                    !.pairs = Pairs(reader.kwargs),
                                    !.key = KeyOf[reader.kwargs],
                                    !.inOrder = InOrder[reader.kwargs]]
    /\ reader' = NoReader
    /\ UNCHANGED <<now, setLog, analyzeVars, historyVars, rankVars>>

\* Time passes between calls (the last cache call has returned).
CacheTick ==
    /\ now < MaxTime
    /\ now' = now + 1
    /\ cacheOp' = NoCacheOp
    /\ UNCHANGED <<cache_dir, setLog, reader, analyzeVars, historyVars, rankVars>>





(***************************************************************************)
(* analyze_market (main.py), sections A-D: the three fetches, the demand   *)
(* segmentation, the score, the verdict and the growth status.             *)
(***************************************************************************)

\* if len(demand_gdf) > 1000: demand_gdf = demand_gdf.sample(1000)
SampleCap == 1000

\* The four segments of demand_breakdown.
Groups == {"Office", "Students", "Residential", "Transport"}

\* The keys of demand_tags_map.
DemandTagValues ==
    {"office", "school", "university", "college", "apartments", "condominium",
     "residential", "station"}

\* demand_tags_map: tag value -> segment.
demand_tags_map(val) ==
    CASE val = "office" -> "Office"
      [] val \in {"school", "university", "college"} -> "Students"
      [] val \in {"apartments", "condominium", "residential"} -> "Residential"
      [] val = "station" -> "Transport"

\* The rows of demand_gdf, by kind: str(row.get(col)) for the columns
\* <<amenity, building, office, public_transport>> in the frame's order.
RowKinds ==
    {<<"nan", "nan", "company", "nan">>,
     <<"nan", "nan", "nan", "station">>,
     <<"nan", "office", "yes", "nan">>,
     <<"university", "residential", "nan", "nan">>}

\* The row kind of the bulk of a large frame.
BulkKind == <<"nan", "apartments", "nan", "nan">>

\* A plausible slip: the last value found in demand_tags_map decides.
RECURSIVE SegmentOfLast(_)
SegmentOfLast(row) ==
    IF row = <<>> THEN "Residential"
    ELSE IF row[Len(row)] \in DemandTagValues THEN demand_tags_map(row[Len(row)])
    ELSE SegmentOfLast(SubSeq(row, 1, Len(row) - 1))

\* The inner loop over demand_gdf.columns: the segment of the first value
\* found in demand_tags_map, Residential when there is none.
RECURSIVE SegmentOf(_)
SegmentOf(row) ==
    IF row = <<>> THEN "Residential"
    ELSE IF Head(row) \in DemandTagValues THEN demand_tags_map(Head(row))
    ELSE SegmentOf(Tail(row))

RECURSIVE SumOver(_, _)
SumOver(f, S) ==
    IF S = {} THEN 0
    ELSE LET x == CHOOSE y \in S : TRUE IN f[x] + SumOver(f, S \ {x})

\* What ox.features_from_point gives for the supply tags: it raises, or a
\* frame with `valid` rows of usable centroid and `nan` rows without.
SupplyFetches ==
    {[raises |-> TRUE, valid |-> 0, nan |-> 0]} \cup
    {[raises |-> FALSE, valid |-> v, nan |-> n] : v \in 0..MaxSupply, n \in 0..1}

\* What it gives for the demand tags: how many rows of each kind, plus a bulk
\* of rows of one kind; "fetch": the call raises; "centroid": the
\* segmentation loop completes and the centroid / sample step raises.
DemandFetches ==
    {[raises |-> r, rows |-> b, bulk |-> k] :
        r \in {"none", "fetch", "centroid"},
        b \in [RowKinds -> 0..MaxRows],
        k \in {0, 1, SampleCap - 1, SampleCap}}

\* What it gives for landuse=construction.
ConstructionFetches ==
    {[raises |-> TRUE, n |-> 0]} \cup
    {[raises |-> FALSE, n |-> c] : c \in 0..MaxConstruction}

\* len(demand_gdf)
DemandRows(d) == SumOver(d.rows, RowKinds) + d.bulk

\* A. Fetch Supply: len(supply_points).
SupplyPoints(s) == IF s.raises THEN 0 ELSE s.valid

\* A plausible slip: the rows of the frame are counted, not the points kept.
NumSupplyRows(s) == IF s.raises THEN 0 ELSE s.valid + s.nan

\* A. Fetch Supply: num_supply, set when the frame is not empty.
NumSupply(s) == IF s.raises \/ s.valid + s.nan = 0 THEN 0 ELSE s.valid

\* B. The segmentation loop: demand_breakdown after it.
DemandBreakdown(d) ==
    [g \in Groups |->
        IF d.raises = "fetch" THEN 0
        ELSE SumOver([k \in RowKinds |-> IF SegmentOf(k) = g THEN d.rows[k] ELSE 0],
                     RowKinds)
             + (IF SegmentOf(BulkKind) = g THEN d.bulk ELSE 0)]

\* B. len(demand_points): the frame, sampled down to 1000 rows when larger;
\* the list stays empty when anything before its assignment raises.
DemandPoints(d) ==
    IF d.raises # "none" THEN 0
    ELSE IF DemandRows(d) > SampleCap THEN SampleCap
    ELSE DemandRows(d)

\* Labels of growth_status (main.py:423, 428, 429).
GrowthStable == "stable"
GrowthGrowing == "growing"
GrowthBooming == "booming"

\* A plausible slip: the lower thresholds taken as inclusive.
GrowthStatusInclusive(cons_count) ==
    IF cons_count >= 5 THEN GrowthBooming
    ELSE IF cons_count >= 2 THEN GrowthGrowing
    ELSE GrowthStable

\* C. Future growth: the label for a construction count.
GrowthStatus(cons_count) ==
    IF cons_count > 5 THEN GrowthBooming
    ELSE IF cons_count > 2 THEN GrowthGrowing
    ELSE GrowthStable

\* round(num_demand / divisor, 2), in hundredths. The quotient is rounded to
\* the nearest hundredth; a quotient half way between two hundredths is an
\* odd multiple of 1/8 for every divisor below 40, which a float holds
\* exactly and round() takes to the even hundredth.
Round2(num_demand, divisor) ==
    LET q == (100 * num_demand) \div divisor
        r == (100 * num_demand) % divisor
    IN  IF 2 * r < divisor THEN q
        ELSE IF 2 * r > divisor THEN q + 1
        ELSE IF q % 2 = 0 THEN q ELSE q + 1

\* A plausible slip: the divisor kept from zero by adding one.
ScoreSmoothed(num_supply, num_demand) == Round2(num_demand, num_supply + 1)

\* D. score, in hundredths.
Score(num_supply, num_demand) ==
    Round2(num_demand, IF num_supply > 0 THEN num_supply ELSE 1)

\* Labels of verdict (main.py:439, 442, 445, 448).
VerdictUncontested == "uncontested market"
VerdictHighPotential == "high potential"
VerdictBalanced == "balanced market"
VerdictSaturated == "saturated market"

\* A plausible slip: the score thresholds taken as inclusive.
VerdictInclusive(num_supply, num_demand, score) ==
    IF num_supply = 0 /\ num_demand > 0 THEN <<VerdictUncontested, "#2980b9">>
    ELSE IF score >= 500 THEN <<VerdictHighPotential, "#27ae60">>
    ELSE IF score >= 200 THEN <<VerdictBalanced, "#f39c12">>
    ELSE <<VerdictSaturated, "#c0392b">>

\* D. <<verdict, color>>; score in hundredths.
Verdict(num_supply, num_demand, score) ==
    IF num_supply = 0 /\ num_demand > 0 THEN <<VerdictUncontested, "#2980b9">>
    ELSE IF score > 500 THEN <<VerdictHighPotential, "#27ae60">>
    ELSE IF score > 200 THEN <<VerdictBalanced, "#f39c12">>
    ELSE <<VerdictSaturated, "#c0392b">>

\* The result dict of a call whose fetches give s, d and c. Point lists are
\* given by their length, the score in hundredths.
AnalysisResult(s, d, c) ==
    LET num_supply == NumSupply(s)
        num_demand == DemandPoints(d)
        score == Score(num_supply, num_demand)
        v == Verdict(num_supply, num_demand, score)
        cons_count == IF c.raises THEN 0 ELSE c.n
    IN  [score |-> score,
         verdict |-> v[1],
         verdict_color |-> v[2],
         supply_count |-> num_supply,
         demand_count |-> num_demand,
         demand_breakdown |-> DemandBreakdown(d),
         growth_status |-> IF c.raises THEN GrowthStable ELSE GrowthStatus(cons_count),
         construction_count |-> cons_count,
         supply_points |-> SupplyPoints(s),
         demand_points |-> num_demand]

NoResult ==
    [score |-> 0, verdict |-> "", verdict_color |-> "", supply_count |-> 0,
     demand_count |-> 0, demand_breakdown |-> [g \in Groups |-> 0],
     growth_status |-> "", construction_count |-> 0, supply_points |-> 0,
     demand_points |-> 0]

NoFetch ==
    [supply |-> [raises |-> TRUE, valid |-> 0, nan |-> 0],
     demand |-> [raises |-> "fetch", rows |-> [k \in RowKinds |-> 0], bulk |-> 0],
     construction |-> [raises |-> TRUE, n |-> 0]]

(***************************************************************************)
(* HistoryManager (history_manager.py).                                    *)
(***************************************************************************)

\* if len(history) > 100: history = history[-100:]
HistoryCap == 100

\* Coordinates are counted in units of 1e-7 degree.
Lats == {137563004, 137563016}
Lons == {1005018000}

BusinessTypes == {"Cafe", "Pharmacy"}

\* round(x, 6): to the nearest 1e-6 degree (no coordinate of the model lies
\* half way between two).
Round6(x) == ((x + 5) \div 10) * 10

\* A result analyze_market hands to add_analysis.
HistoryResults ==
    {AnalysisResult([raises |-> FALSE, valid |-> 2, nan |-> 0],
                    [raises |-> "none", rows |-> [k \in RowKinds |-> 1], bulk |-> 0],
                    [raises |-> FALSE, n |-> 3])}

\* The entry add_analysis builds at time t.
Entry(lat, lon, business_type, radius, res, t) ==
    [timestamp |-> t,
     location |-> [lat |-> Round6(lat), lon |-> Round6(lon)],
     business_type |-> business_type,
     radius |-> radius,
     result |-> [score |-> res.score, verdict |-> res.verdict,
                 supply_count |-> res.supply_count, demand_count |-> res.demand_count,
                 growth_status |-> res.growth_status,
                 construction_count |-> res.construction_count]]

\* The history file: a JSON list, or text json.load cannot parse.
HistoryFile(log) == [state |-> "valid", log |-> log]
CorruptHistory == [state |-> "corrupt", log |-> <<>>]

\* HistoryManager._load_history; io = "fail": open raises.
LoadHistory(file, io) ==
    IF file.state = "corrupt" \/ io = "fail" THEN <<>> ELSE file.log

\* HistoryManager._save_history; "open_fail": open raises, the file is left
\* as it was; "dump_fail": the file is truncated and json.dump raises.
SaveHistory(file, history, io) ==
    CASE io = "ok" -> HistoryFile(history)
      [] io = "open_fail" -> file
      [] io = "dump_fail" -> CorruptHistory

\* A plausible slip: the first 100 entries are kept.
KeepOldest(history) ==
    IF Len(history) > HistoryCap THEN SubSeq(history, 1, HistoryCap) ELSE history

\* Keep only last 100 entries.
KeepLast(history) ==
    IF Len(history) > HistoryCap
    THEN SubSeq(history, Len(history) - HistoryCap + 1, Len(history))
    ELSE history

\* get_statistics on an empty history: no date_range, most_analyzed_type None.
NoType == "None"

EmptyStatistics ==
    [total_analyses |-> 0, business_types |-> <<>>, average_score |-> 0,
     most_analyzed_type |-> NoType, date_range |-> [present |-> FALSE, first |-> 0, last |-> 0]]

NoHistOp ==
    [kind |-> "none", io |-> "ok", limit |-> 0, business_type |-> "",
     returned |-> <<>>, count |-> 0,
     lat |-> 0, lon |-> 0, tolerance |-> 0, stats |-> EmptyStatistics]

\* HistoryManager.add_analysis
AddAnalysis(lat, lon, business_type, radius, res, loadIo, saveIo) ==
    LET history == LoadHistory(history_file, loadIo)
        entry == Entry(lat, lon, business_type, radius, res, now)
        kept == KeepLast(Append(history, entry))
        failed == history_file.state = "corrupt" \/ loadIo = "fail" \/ saveIo # "ok"
    IN  /\ appendCount < MaxAppends
        /\ history_file' = SaveHistory(history_file, kept, saveIo)
        /\ histOp' = [NoHistOp EXCEPT !.kind = "append",
                                      !.io = IF failed THEN "fail" ELSE "ok"]
        /\ appended' = IF faulted \/ failed THEN <<>> ELSE Append(appended, entry)
        /\ faulted' = (faulted \/ failed)
        /\ appendCount' = appendCount + 1
        /\ UNCHANGED <<writers, schedule>>

\* The list ordered by timestamp, newest first, entries of equal timestamp
\* in the order they had: x goes behind every entry at least as new.
RECURSIVE InsertByTimestamp(_, _)
InsertByTimestamp(x, s) ==
    IF s = <<>> THEN <<x>>
    ELSE IF Head(s).timestamp < x.timestamp THEN <<x>> \o s
    ELSE <<Head(s)>> \o InsertByTimestamp(x, Tail(s))

\* sorted(history, key=lambda x: x["timestamp"], reverse=True): a stable sort.
RECURSIVE SortedNewestFirst(_)
SortedNewestFirst(history) ==
    IF history = <<>> THEN <<>>
    ELSE InsertByTimestamp(history[Len(history)],
                           SortedNewestFirst(SubSeq(history, 1, Len(history) - 1)))

\* s[:limit], limit >= 0
Slice(s, limit) == SubSeq(s, 1, IF limit < Len(s) THEN limit ELSE Len(s))

\* The entries of one business type; business_type = "" stands for None
\* (no filter).
OfType(history, business_type) ==
    IF business_type = "" THEN history
    ELSE SelectSeq(history, LAMBDA h : h.business_type = business_type)

\* HistoryManager.get_history
GetHistory(limit, business_type, loadIo) ==
    LET history == OfType(LoadHistory(history_file, loadIo), business_type)
    IN  /\ histOp' = [NoHistOp EXCEPT
                        !.kind = "query",
                        !.io = IF history_file.state = "corrupt" \/ loadIo = "fail"
                               THEN "fail" ELSE "ok",
                        !.limit = limit,
                        !.business_type = business_type,
                        !.returned = Slice(SortedNewestFirst(history), limit)]
        /\ UNCHANGED <<history_file, appended, faulted, appendCount, writers, schedule>>

\* HistoryManager.clear_history
ClearHistory(loadIo, saveIo) ==
    LET history == LoadHistory(history_file, loadIo)
        failed == history_file.state = "corrupt" \/ loadIo = "fail" \/ saveIo # "ok"
    IN  /\ history_file' = SaveHistory(history_file, <<>>, saveIo)
        /\ histOp' = [NoHistOp EXCEPT !.kind = "clear",
                                      !.io = IF failed THEN "fail" ELSE "ok",
                                      !.count = Len(history)]
        /\ appended' = <<>>
        /\ faulted' = (saveIo # "ok")
        /\ UNCHANGED <<appendCount, writers, schedule>>

Abs(x) == IF x < 0 THEN 0 - x ELSE x

\* A plausible slip: the boundary is left out.
WithinStrictly(entry, lat, lon, tolerance) ==
    /\ Abs(entry.location.lat - lat) < tolerance
    /\ Abs(entry.location.lon - lon) < tolerance

\* abs(entry_lat - lat) <= tolerance and abs(entry_lon - lon) <= tolerance.
\* The difference of two nearby doubles is computed without rounding, so
\* the comparison is the exact one on the numbers the call is given.
Within(entry, lat, lon, tolerance) ==
    /\ Abs(entry.location.lat - lat) <= tolerance
    /\ Abs(entry.location.lon - lon) <= tolerance

\* HistoryManager.get_location_history
GetLocationHistory(lat, lon, tolerance, loadIo) ==
    LET history == LoadHistory(history_file, loadIo)
        location_history == SelectSeq(history, LAMBDA h : Within(h, lat, lon, tolerance))
    IN  /\ histOp' = [NoHistOp EXCEPT
                        !.kind = "query_near",
                        !.io = IF history_file.state = "corrupt" \/ loadIo = "fail"
                               THEN "fail" ELSE "ok",
                        !.lat = lat, !.lon = lon, !.tolerance = tolerance,
                        !.returned = SortedNewestFirst(location_history)]
        /\ UNCHANGED <<history_file, appended, faulted, appendCount, writers, schedule>>

\* business_types[btype] = business_types.get(btype, 0) + 1; the dict keeps
\* its keys in the order they were first inserted.
CountType(business_types, btype) ==
    IF \E i \in 1..Len(business_types) : business_types[i].type = btype
    THEN [i \in 1..Len(business_types) |->
            IF business_types[i].type = btype
            THEN [business_types[i] EXCEPT !.count = @ + 1]
            ELSE business_types[i]]
    ELSE Append(business_types, [type |-> btype, count |-> 1])

\* The histogram after the loop over history.
RECURSIVE TypeCounts(_)
TypeCounts(history) ==
    IF history = <<>> THEN <<>>
    ELSE CountType(TypeCounts(SubSeq(history, 1, Len(history) - 1)),
                   history[Len(history)].business_type)

\* total_score, in hundredths
RECURSIVE TotalScore(_)
TotalScore(history) ==
    IF history = <<>> THEN 0
    ELSE history[1].result.score + TotalScore(Tail(history))

\* round(total_score / len(history), 2), in hundredths: the nearest one,
\* the even one of two equally near.
AverageScore(total_score, n) ==
    LET q == total_score \div n
        r == total_score % n
    IN  IF 2 * r < n THEN q
        ELSE IF 2 * r > n THEN q + 1
        ELSE IF q % 2 = 0 THEN q ELSE q + 1

\* A plausible slip: the type with the fewest analyses.
LeastAnalyzed(business_types) ==
    business_types[CHOOSE i \in 1..Len(business_types) :
        /\ \A j \in 1..Len(business_types) :
                business_types[j].count >= business_types[i].count
        /\ \A j \in 1..(i - 1) : business_types[j].count > business_types[i].count].type

\* max(business_types.items(), key=lambda x: x[1])[0]: the first of the
\* items with the greatest count.
MostAnalyzed(business_types) ==
    business_types[CHOOSE i \in 1..Len(business_types) :
        /\ \A j \in 1..Len(business_types) :
                business_types[j].count <= business_types[i].count
        /\ \A j \in 1..(i - 1) : business_types[j].count < business_types[i].count].type

\* The dict get_statistics returns for the loaded history.
Statistics(history) ==
    IF history = <<>> THEN EmptyStatistics
    ELSE [total_analyses |-> Len(history),
          business_types |-> TypeCounts(history),
          average_score |-> AverageScore(TotalScore(history), Len(history)),
          most_analyzed_type |-> MostAnalyzed(TypeCounts(history)),
          date_range |-> [present |-> TRUE,
                          first |-> history[1].timestamp,
                          last |-> history[Len(history)].timestamp]]

\* HistoryManager.get_statistics
GetStatistics(loadIo) ==
    /\ histOp' = [NoHistOp EXCEPT
                    !.kind = "statistics",
                    !.io = IF history_file.state = "corrupt" \/ loadIo = "fail"
                           THEN "fail" ELSE "ok",
                    !.stats = Statistics(LoadHistory(history_file, loadIo))]
    /\ UNCHANGED <<history_file, appended, faulted, appendCount, writers, schedule>>

\* The two callers of add_analysis that run side by side (two workers of
\* the service on one history file).
Procs == {1, 2}

\* A caller that has not started: nothing loaded, no entry built.
NoWriter == [pc |-> "idle", history |-> <<>>, entry |-> <<>>]

\* add_analysis up to the save: the file is loaded, the entry is built and
\* appended to the loaded list, the list is cut to its last 100. Caller p
\* analyses its own location with its own radius.
AppendLoad(p) ==
    /\ writers[p].pc = "idle"
    /\ \E b \in BusinessTypes, res \in HistoryResults :
        LET history == LoadHistory(history_file, "ok")
            entry == Entry(IF p = 1 THEN 137563004 ELSE 137563016, 1005018000, b,
                           IF p = 1 THEN 500 ELSE 2000, res, now)
        IN  writers' = [writers EXCEPT ![p] =
                [pc |-> "loaded", history |-> KeepLast(Append(history, entry)),
                 entry |-> entry]]
    /\ schedule' = Append(schedule, <<p, "load">>)
    /\ UNCHANGED <<now, history_file, histOp, appended, faulted, appendCount>>
    /\ UNCHANGED <<cacheVars, analyzeVars, rankVars>>

\* A plausible slip: the save appends to what the file holds by then.
SavedLogMerged(p) ==
    KeepLast(Append(LoadHistory(history_file, "ok"), writers[p].entry))

\* The list the caller hands to _save_history: the one it built from what
\* it loaded.
SavedLog(p) == writers[p].history

\* self._save_history(history): the file is overwritten with the list.
AppendSave(p) ==
    /\ writers[p].pc = "loaded"
    /\ history_file' = SaveHistory(history_file, SavedLog(p), "ok")
    /\ writers' = [writers EXCEPT ![p].pc = "saved"]
    /\ schedule' = Append(schedule, <<p, "save">>)
    /\ UNCHANGED <<now, histOp, appended, faulted, appendCount>>
    /\ UNCHANGED <<cacheVars, analyzeVars, rankVars>>

\* An entry of a log found on disk at start: entry i of n, the two newest
\* stamped 0, the two before them -1, and so on.
StoredEntry(i, n) ==
    Entry(IF i % 2 = 0 THEN 137563004 ELSE 137563016, 1005018000,
          IF i % 3 = 0 THEN "Pharmacy" ELSE "Cafe", 1000,
          CHOOSE r \in HistoryResults : TRUE, 0 - ((n - i) \div 2))

StoredLog(n) == [i \in 1..n |-> StoredEntry(i, n)]

\* HistoryManager.__init__: the file is created empty when missing, else kept.
HistoryInit(lengths) ==
    /\ \E n \in lengths :
        /\ history_file = HistoryFile(StoredLog(n))
        /\ appended = StoredLog(n)
    /\ histOp = NoHistOp
    /\ faulted = FALSE
    /\ appendCount = 0
    /\ writers = [p \in Procs |-> NoWriter]
    /\ schedule = <<>>

HistoryIdle ==
    /\ history_file = HistoryFile(<<>>)
    /\ histOp = NoHistOp
    /\ appended = <<>>
    /\ faulted = FALSE
    /\ appendCount = 0
    /\ writers = [p \in Procs |-> NoWriter]
    /\ schedule = <<>>

HistoryAdd ==
    /\ \E lat \in Lats, lon \in Lons, b \in BusinessTypes, res \in HistoryResults :
            AddAnalysis(lat, lon, b, 1000, res, "ok", "ok")
    /\ UNCHANGED <<now, cacheVars, analyzeVars, rankVars>>

\* An add_analysis whose load or save fails.
HistoryAddFails ==
    /\ \E lat \in Lats, lon \in Lons, b \in BusinessTypes, res \in HistoryResults,
          loadIo \in {"ok", "fail"}, saveIo \in {"ok", "open_fail", "dump_fail"} :
            /\ (loadIo = "fail" \/ saveIo # "ok")
            /\ AddAnalysis(lat, lon, b, 1000, res, loadIo, saveIo)
    /\ UNCHANGED <<now, cacheVars, analyzeVars, rankVars>>

HistoryClear ==
    /\ \E loadIo \in {"ok", "fail"}, saveIo \in {"ok", "open_fail", "dump_fail"} :
            ClearHistory(loadIo, saveIo)
    /\ UNCHANGED <<now, cacheVars, analyzeVars, rankVars>>

\* limit: 10 is the endpoint's default (main.py:161).
Limits == {0, 1, 10}

HistoryGet ==
    /\ \E limit \in Limits, b \in BusinessTypes \cup {""}, loadIo \in {"ok", "fail"} :
            GetHistory(limit, b, loadIo)
    /\ UNCHANGED <<now, cacheVars, analyzeVars, rankVars>>

\* The calls made, in units of 1e-7 degree; 0.01 is the endpoint's default
\* tolerance (main.py:176). The stored entries lie at latitude 13.7563 or
\* 13.756302 and longitude 100.5018.
NearQueries ==
    {[lat |-> 137560000, lon |-> 1005020000, tolerance |-> 100000],
     [lat |-> 137560000, lon |-> 1005020000, tolerance |-> 1000],
     [lat |-> 137563010, lon |-> 1005018000, tolerance |-> 10],
     [lat |-> 137563000, lon |-> 1005018000, tolerance |-> 10],
     [lat |-> 137563000, lon |-> 1005020000, tolerance |-> 1000],
     [lat |-> 137560000, lon |-> 1005018000, tolerance |-> 1000]}

HistoryNear ==
    /\ \E q \in NearQueries, loadIo \in {"ok", "fail"} :
            GetLocationHistory(q.lat, q.lon, q.tolerance, loadIo)
    /\ UNCHANGED <<now, cacheVars, analyzeVars, rankVars>>

HistoryStats ==
    /\ \E loadIo \in {"ok", "fail"} : GetStatistics(loadIo)
    /\ UNCHANGED <<now, cacheVars, analyzeVars, rankVars>>

\* Time passes between calls.
HistoryTick ==
    /\ now < MaxStamp
    /\ now' = now + 1
    /\ UNCHANGED <<cacheVars, analyzeVars, historyVars, rankVars>>

(***************************************************************************)
(* analyze_market (main.py): the handler, which runs without yielding.     *)
(***************************************************************************)

\* The requests of the model (AnalyzeRequest).
Requests == [lat : Lats, lon : Lons, business_type : {"Cafe"}, radius : {1000}]

\* round(x, 4) of a coordinate counted in 1e-7 degree: a float, given by
\* its sign and its magnitude in units of 1e-4 degree (no coordinate of the
\* model lies half way between two). round keeps the sign of what it
\* rounds: round(-0.00001, 4) is -0.0.
Round4(x) ==
    [negative |-> x < 0,
     units |-> IF x < 0 THEN (500 - x) \div 1000 ELSE (x + 500) \div 1000]

\* json.dumps of a float (its repr) for the floats of the model's requests.
JsonFloat(f) ==
    CASE f.units = 137563 /\ ~f.negative -> "13.7563"
      [] f.units = 137564 /\ ~f.negative -> "13.7564"
      [] f.units = 1005018 /\ ~f.negative -> "100.5018"
      [] f.units = 1005019 /\ ~f.negative -> "100.5019"
      [] f.units = 0 /\ ~f.negative -> "0.0"
      [] f.units = 0 /\ f.negative -> "-0.0"

\* json.dumps of an int and of a str.
JsonNumber(x) ==
    CASE x = 1000 -> "1000"
      [] x = 500 -> "500"

JsonString(text) ==
    CASE text = "Cafe" -> "\"Cafe\""
      [] text = "Pharmacy" -> "\"Pharmacy\""

cache_key_params(req) ==
    << <<"lat", JsonFloat(Round4(req.lat))>>,
       <<"lon", JsonFloat(Round4(req.lon))>>,
       <<"business_type", JsonString(req.business_type)>>,
       <<"radius", JsonNumber(req.radius)>> >>

\* A plausible slip: nothing the cache returns counts as a hit.
NeverTruthy(op) == FALSE

\* A plausible slip: a result without competitors is taken for no result.
TruthyIfSupplied(op) == op.hit /\ op.data.supply_count > 0

\* if cached_result: cache.get returned a dict (not None) and the dict has
\* keys.
Truthy(op) == op.hit /\ DOMAIN op.data # {}

\* analyze_market on the request req: a cache hit returns the cached
\* result; a miss runs sections A-D on what the fetches give, stores the
\* result in the cache and appends it to the history. The cache and history
\* files are readable and writable.
Analyze(req) ==
    /\ request' = req
    /\ \E cached \in {GetCall(cache_dir, cache_key_params(req), "ok", now)} :
            IF Truthy(cached.op)
            THEN /\ result' = cached.op.data
                 /\ pc' = "hit"
                 /\ cache_dir' = cached.dir
                 /\ cacheOp' = cached.op
                 /\ UNCHANGED <<setLog, historyVars>>
            ELSE /\ result' = AnalysisResult(fetched.supply, fetched.demand,
                                             fetched.construction)
                 /\ pc' = "done"
                 /\ \E stored \in {SetCall(cached.dir, setLog, result',
                                           cache_key_params(req), "ok", now)} :
                        /\ cache_dir' = stored.dir
                        /\ cacheOp' = stored.op
                        /\ setLog' = stored.log
                 /\ AddAnalysis(req.lat, req.lon, req.business_type, req.radius,
                                result', "ok", "ok")
    /\ UNCHANGED <<fetched, now, rankVars, reader>>

\* A request and its repeat, on the geodata found at the start.
AnalyzeMarket ==
    /\ pc \in {"start", "done"}
    /\ \E req \in Requests : Analyze(req)

NoRequest == [lat |-> 0, lon |-> 0, business_type |-> "", radius |-> 0]

AnalyzeIdle ==
    /\ fetched = NoFetch
    /\ pc = "idle"
    /\ result = NoResult
    /\ request = NoRequest

\* A request arrives; the geodata around its point is what it is.
AnalyzeInit ==
    /\ fetched \in [supply : SupplyFetches, demand : DemandFetches,
                    construction : ConstructionFetches]
    /\ pc = "start"
    /\ result = NoResult
    /\ request = NoRequest

\* The requests of a sequence of calls: a first one, one 1.2e-6 degree
\* north of it, and one at latitude 13.7564.
ServeRequests ==
    {[lat |-> 137563004, lon |-> 1005018000, business_type |-> "Cafe", radius |-> 1000],
     [lat |-> 137563016, lon |-> 1005018000, business_type |-> "Cafe", radius |-> 1000],
     [lat |-> 137564000, lon |-> 1005018000, business_type |-> "Cafe", radius |-> 1000]}

\* The same, and two requests on either side of the equator, at latitudes
\* 0.00001 and -0.00001.
NearbyRequests ==
    ServeRequests \cup
    {[lat |-> 100, lon |-> 1005018000, business_type |-> "Cafe", radius |-> 1000],
     [lat |-> 0 - 100, lon |-> 1005018000, business_type |-> "Cafe", radius |-> 1000]}

\* What the three fetches give at the time of a call: all of them data, the
\* supply and the construction fetch raising, or all three raising.
FetchOutcomes ==
    {[supply |-> [raises |-> FALSE, valid |-> 2, nan |-> 0],
      demand |-> [raises |-> "none", rows |-> [k \in RowKinds |-> 1], bulk |-> 0],
      construction |-> [raises |-> FALSE, n |-> 3]],
     [supply |-> [raises |-> TRUE, valid |-> 0, nan |-> 0],
      demand |-> [raises |-> "none", rows |-> [k \in RowKinds |-> 1], bulk |-> 0],
      construction |-> [raises |-> TRUE, n |-> 0]],
     NoFetch}

\* A request, one of `requests`, reaches the handler.
Arrive(requests) ==
    /\ pc \in {"idle", "done", "hit"}
    /\ pc' = "start"
    /\ request' \in requests
    /\ fetched' \in FetchOutcomes
    /\ UNCHANGED <<result, now, cacheVars, historyVars, rankVars>>

\* The handler runs on the request that arrived.
Serve ==
    /\ pc = "start"
    /\ request # NoRequest
    /\ Analyze(request)

(***************************************************************************)
(* autocomplete (main.py): the relevance ranking of the geocoder's          *)
(* candidates.  Strings are sequences of characters; a score is held in    *)
(* hundredths, an importance in hundredths too.                            *)
(***************************************************************************)
\* scored_results[:8]
TopN == 8

\* item["display_name"] of an item that has no such key
Missing == <<"<missing>">>

\* str.lower() on the characters the names and queries are written with
UpperCase == <<"A", "C", "E", "F", "T">>

LowerCase == <<"a", "c", "e", "f", "t">>

LowerChar(ch) ==
    IF \E i \in 1..Len(UpperCase) : UpperCase[i] = ch
    THEN LowerCase[CHOOSE i \in 1..Len(UpperCase) : UpperCase[i] = ch]
    ELSE ch

Lower(s) == [i \in 1..Len(s) |-> LowerChar(s[i])]

\* s.split(","): the comma-delimited segments, at least one
RECURSIVE Split(_)
Split(s) ==
    IF \A i \in 1..Len(s) : s[i] # ","
    THEN <<s>>
    ELSE LET k == CHOOSE i \in 1..Len(s) :
                    s[i] = "," /\ \A j \in 1..(i - 1) : s[j] # ","
         IN <<SubSeq(s, 1, k - 1)>> \o Split(SubSeq(s, k + 1, Len(s)))

\* s.startswith(p)
StartsWith(s, p) == Len(p) <= Len(s) /\ SubSeq(s, 1, Len(p)) = p

\* p in s
Contains(s, p) ==
    \E i \in 0..(Len(s) - Len(p)) : SubSeq(s, i + 1, i + Len(p)) = p

\* float(text) of a decimal digit string; NotANumber when it does not parse
Digits == <<"0", "1", "2", "3", "4", "5", "6", "7", "8", "9">>

NotANumber == -1

DigitValue(ch) == (CHOOSE i \in 1..Len(Digits) : Digits[i] = ch) - 1

RECURSIVE Float(_)
Float(text) ==
    IF text = <<>> \/ \E i \in 1..Len(text) : \A d \in 1..Len(Digits) : Digits[d] # text[i]
    THEN NotANumber
    ELSE IF Len(text) = 1
         THEN DigitValue(text[1])
         ELSE 10 * Float(SubSeq(text, 1, Len(text) - 1)) + DigitValue(text[Len(text)])

\* the text of a coordinate the geocoder gives for the i-th place
RECURSIVE CoordText(_)
CoordText(i) ==
    IF i < 10 THEN <<Digits[i + 1]>> ELSE Append(CoordText(i \div 10), Digits[(i % 10) + 1])

\* priority_map
PriorityClasses ==
    {"amenity", "shop", "tourism", "leisure", "building", "highway", "place", "boundary"}

PlacePriority(place_type) ==
    CASE place_type = "neighbourhood" -> 60
      [] place_type = "suburb" -> 55
      [] place_type = "quarter" -> 58
      [] place_type = "city_block" -> 62
      [] place_type = "hamlet" -> 50
      [] place_type = "village" -> 45
      [] place_type = "town" -> 40
      [] place_type = "city" -> 35
      [] place_type = "state" -> 10
      [] place_type = "country" -> 5
      [] OTHER -> 30

Priority(place_class, place_type) ==
    IF place_class \in PriorityClasses
    THEN CASE place_class = "amenity" -> 100
           [] place_class = "shop" -> 95
           [] place_class = "tourism" -> 90
           [] place_class = "leisure" -> 85
           [] place_class = "building" -> 80
           [] place_class = "highway" -> 70
           [] place_class = "place" -> PlacePriority(place_type)
           [] place_class = "boundary" -> 20
    ELSE 40

\* float(item.get("importance", 0)), in hundredths
ImportanceOf(item) == IF item.importance.kind = "number" THEN item.importance.value ELSE 0

\* the exclusion pass
BareCountry(item) ==
    /\ item.class = "boundary" /\ item.type = "administrative"
    /\ item.address_country
    /\ Len(Split(item.display_name)) <= 1

SeaOceanContinent(item) ==
    item.class \in {"natural", "waterway"} /\ item.type \in {"sea", "ocean", "continent"}

\* A plausible slip: the bare-country rule left out.
ExcludedSeaOnly(item) == SeaOceanContinent(item)

Excluded(item) == BareCountry(item) \/ SeaOceanContinent(item)

\* A plausible slip: if / if / if, the bonuses add up.
NameBonusAccumulated(display_name, query_text) ==
    LET display_name_lower == Lower(display_name)
        query_lower == Lower(query_text)
    IN (IF StartsWith(display_name_lower, query_lower) THEN 30 ELSE 0)
       + (IF Contains(Lower(Split(display_name_lower)[1]), query_lower) THEN 20 ELSE 0)
       + (IF Contains(display_name_lower, query_lower) THEN 10 ELSE 0)

\* the name-match bonus: if / elif / elif
NameBonus(display_name, query_text) ==
    LET display_name_lower == Lower(display_name)
        query_lower == Lower(query_text)
    IN IF StartsWith(display_name_lower, query_lower) THEN 30
       ELSE IF Contains(Lower(Split(display_name_lower)[1]), query_lower) THEN 20
       ELSE IF Contains(display_name_lower, query_lower) THEN 10
       ELSE 0

\* one pass of the loop body: the item raises, is skipped, or is scored
Outcome(item) ==
    IF item.importance.kind = "null"
    THEN "raise"
    ELSE IF /\ item.class = "boundary" /\ item.type = "administrative"
            /\ item.address_country /\ item.display_name = Missing
    THEN "raise"
    ELSE IF Excluded(item)
    THEN "skip"
    ELSE IF item.display_name = Missing
    THEN "raise"
    ELSE IF Float(item.lat) = NotANumber \/ Float(item.lon) = NotANumber
    THEN "raise"
    ELSE "keep"

ItemScore(item, query_text) ==
    100 * Priority(item.class, item.type) + 20 * ImportanceOf(item)
    + 100 * NameBonus(item.display_name, query_text)

Scored(item, query_text) ==
    [display_name |-> item.display_name, lat |-> Float(item.lat), lon |-> Float(item.lon),
     score |-> ItemScore(item, query_text), type |-> item.type, class |-> item.class]

\* the for loop over data: stops at the first item that raises
RECURSIVE ScoreLoop(_, _, _)
ScoreLoop(items, query_text, acc) ==
    IF items = <<>>
    THEN [raised |-> FALSE, scored |-> acc]
    ELSE LET outcome == Outcome(Head(items))
         IN IF outcome = "raise"
            THEN [raised |-> TRUE, scored |-> acc]
            ELSE ScoreLoop(Tail(items), query_text,
                           IF outcome = "skip"
                           THEN acc
                           ELSE Append(acc, Scored(Head(items), query_text)))

\* A plausible slip: an element goes before the elements of equal score.
InsertByScoreBeforeEqual(e, s) ==
    LET k == Cardinality({i \in 1..Len(s) : s[i].score > e.score})
    IN SubSeq(s, 1, k) \o <<e>> \o SubSeq(s, k + 1, Len(s))

\* scored_results.sort(key=score, reverse=True): stable, so an element goes
\* behind the elements of equal score that precede it in the list
InsertByScore(e, s) ==
    LET k == Cardinality({i \in 1..Len(s) : s[i].score >= e.score})
    IN SubSeq(s, 1, k) \o <<e>> \o SubSeq(s, k + 1, Len(s))

RECURSIVE SortByScore(_)
SortByScore(s) ==
    IF s = <<>> THEN <<>>
    ELSE InsertByScore(s[Len(s)], SortByScore(SubSeq(s, 1, Len(s) - 1)))

Strip(r) == [display_name |-> r.display_name, lat |-> r.lat, lon |-> r.lon]

Suggestions(sorted) ==
    [i \in 1..(IF Len(sorted) < TopN THEN Len(sorted) ELSE TopN) |-> Strip(sorted[i])]

\* display names and queries the model ranks
NameCafe == <<"C", "e", "n", "t", "r", "a", "l", " ", "C", "a", "f", "e">>

NameCountry == <<"T", "h", "a", "i", "l", "a", "n", "d">>

NameAddress ==
    <<"C", "a", "f", "e", " ", "C", "e", "n", "t", "r", "a", "l", ",", " ",
      "T", "h", "a", "i", "l", "a", "n", "d">>

Names == {NameCafe, NameCountry, NameAddress}

Queries ==
    { <<"C", "e", "n", "t", "r", "a", "l">>,
      <<"t", "h", "a", "i">>,
      <<"C", "A", "F", "E">>,
      <<"l", ",", " ", "T">>,
      <<>> }

ClassTypes ==
    { <<"amenity", "cafe">>, <<"shop", "convenience">>, <<"place", "continent">>,
      <<"natural", "sea">>, <<"natural", "peak">>, <<"waterway", "ocean">>,
      <<"boundary", "administrative">> }

NoImportance == [kind |-> "missing", value |-> 0]

NullImportance == [kind |-> "null", value |-> 0]

Importance(value) == [kind |-> "number", value |-> value]

\* a candidate of the geocoder before its place in the list gives it coordinates
Template(class_type, display_name, importance, address_country, coords_ok) ==
    [class |-> class_type[1], type |-> class_type[2], display_name |-> display_name,
     importance |-> importance, address_country |-> address_country,
     coords_ok |-> coords_ok]

WellFormedTemplates ==
    {Template(ct, n, NoImportance, FALSE, TRUE) : ct \in ClassTypes, n \in Names}
    \cup {Template(<<"shop", "convenience">>, n, Importance(25), FALSE, TRUE) : n \in Names}
    \cup {Template(<<"boundary", "administrative">>, n, NoImportance, TRUE, TRUE) : n \in Names}

MalformedTemplates ==
    { Template(<<"amenity", "cafe">>, NameCafe, NullImportance, FALSE, TRUE),
      Template(<<"amenity", "cafe">>, Missing, NoImportance, FALSE, TRUE),
      Template(<<"amenity", "cafe">>, NameCafe, NoImportance, FALSE, FALSE),
      Template(<<"natural", "sea">>, NameCountry, NullImportance, FALSE, TRUE),
      Template(<<"natural", "sea">>, Missing, NoImportance, FALSE, FALSE),
      Template(<<"boundary", "administrative">>, Missing, NoImportance, TRUE, TRUE) }

Templates == WellFormedTemplates \cup MalformedTemplates

\* the candidate a template is as the i-th item of the response
Item(template, i) ==
    [class |-> template.class, type |-> template.type,
     display_name |-> template.display_name,
     importance |-> template.importance, address_country |-> template.address_country,
     lat |-> IF template.coords_ok THEN CoordText(i) ELSE <<"n", "a">>,
     lon |-> IF template.coords_ok THEN CoordText(100 + i) ELSE <<"n", "a">>]

\* the well-formed candidates that surround the ones the model varies
BackgroundTemplate(i) ==
    CASE i % 4 = 1 -> Template(<<"amenity", "cafe">>, NameCafe, NoImportance, FALSE, TRUE)
      [] i % 4 = 2 -> Template(<<"shop", "convenience">>, NameAddress, Importance(25), FALSE, TRUE)
      [] i % 4 = 3 -> Template(<<"boundary", "administrative">>, NameCountry, NoImportance, TRUE, TRUE)
      [] OTHER -> Template(<<"place", "continent">>, NameCountry, NoImportance, FALSE, TRUE)

\* a response: the varied candidates in the middle of n background candidates
DataOf(varied, n) ==
    LET h == n \div 2
        templates ==
            [i \in 1..h |-> BackgroundTemplate(i)] \o varied
            \o [i \in 1..(n - h) |-> BackgroundTemplate(h + i)]
    IN [i \in 1..Len(templates) |-> Item(templates[i], i)]

VariedLists == UNION {[1..k -> Templates] : k \in 0..MaxVaried}

Responses ==
    {r : r \in
        {[status_code |-> 503, data |-> <<>>]}
        \cup {[status_code |-> 200, data |-> DataOf(varied, n)] :
                varied \in VariedLists, n \in {0, MaxBackground}}}

NoResponse == [status_code |-> 0, data |-> <<>>]

Autocomplete ==
    /\ rankPc = "start"
    /\ IF response.status_code # 200
       THEN /\ scored_results' = <<>>
            /\ suggestions' = <<>>
            /\ rankPc' = "bad_status"
       ELSE \E loop \in {ScoreLoop(response.data, query, <<>>)} :
                IF loop.raised
                THEN /\ scored_results' = loop.scored
                     /\ suggestions' = <<>>
                     /\ rankPc' = "caught"
                ELSE /\ scored_results' = SortByScore(loop.scored)
                     /\ suggestions' = Suggestions(scored_results')
                     /\ rankPc' = "returned"
    /\ UNCHANGED <<query, response, now, cacheVars, analyzeVars, historyVars>>

RankIdle ==
    /\ query = <<>>
    /\ response = NoResponse
    /\ scored_results = <<>>
    /\ suggestions = <<>>
    /\ rankPc = "idle"

RankInit ==
    /\ query \in Queries
    /\ response \in Responses
    /\ scored_results = <<>>
    /\ suggestions = <<>>
    /\ rankPc = "start"

(***************************************************************************)
(* The specifications.                                                     *)
(***************************************************************************)
InitCache == now = 0 /\ CacheInit /\ AnalyzeIdle /\ HistoryIdle /\ RankIdle

NextCache ==
    \/ CacheGet
    \/ CacheSet
    \/ CacheSetFails
    \/ CacheClearExpired
    \/ CacheClearAll
    \/ CacheTick

SpecCache == InitCache /\ [][NextCache]_vars

\* A get whose read and unlink other calls can come between.
InitStale == now = 0 /\ CacheInit /\ AnalyzeIdle /\ HistoryIdle /\ RankIdle

NextStale ==
    \/ GetRead
    \/ GetUnlink
    \/ CacheSet
    \/ CacheTick

SpecStale == InitStale /\ [][NextStale]_vars

InitAnalyze == now = 0 /\ AnalyzeInit /\ CacheInit /\ HistoryIdle /\ RankIdle

SpecAnalyze == InitAnalyze /\ [][AnalyzeMarket]_vars

\* The log at or near its cap: appends and clears.
InitHistory ==
    /\ now = 0 /\ HistoryInit({0, 1, HistoryCap - 1, HistoryCap})
    /\ CacheInit /\ AnalyzeIdle /\ RankIdle

NextHistory ==
    \/ HistoryAdd
    \/ HistoryAddFails
    \/ HistoryClear
    \/ HistoryTick

SpecHistory == InitHistory /\ [][NextHistory]_vars

\* A short log: appends, clears, queries and statistics.
InitQuery == now = 0 /\ HistoryInit({0, 2}) /\ CacheInit /\ AnalyzeIdle /\ RankIdle

NextQuery ==
    \/ HistoryAdd
    \/ HistoryAddFails
    \/ HistoryClear
    \/ HistoryGet
    \/ HistoryNear
    \/ HistoryStats
    \/ HistoryTick

SpecQuery == InitQuery /\ [][NextQuery]_vars

\* A short log: appends, clears, lookups by location and statistics.
InitLookup == now = 0 /\ HistoryInit({0, 2}) /\ CacheInit /\ AnalyzeIdle /\ RankIdle

NextLookup ==
    \/ HistoryAdd
    \/ HistoryClear
    \/ HistoryNear
    \/ HistoryStats
    \/ HistoryTick

SpecLookup == InitLookup /\ [][NextLookup]_vars

\* Two add_analysis calls on one file, their loads and saves in any order.
InitRace ==
    /\ now = 0 /\ HistoryInit({0, 1, 2, HistoryCap - 1, HistoryCap})
    /\ CacheInit /\ AnalyzeIdle /\ RankIdle

NextRace ==
    \/ \E p \in Procs : AppendLoad(p)
    \/ \E p \in Procs : AppendSave(p)
    \/ HistoryTick

SpecRace == InitRace /\ [][NextRace]_vars

\* A sequence of analyze_market calls over time, on an empty cache and log.
InitServe == now = 0 /\ CacheInit /\ AnalyzeIdle /\ HistoryIdle /\ RankIdle

NextServe ==
    \/ Arrive(ServeRequests)
    \/ Serve
    \/ CacheTick

SpecServe == InitServe /\ [][NextServe]_vars

\* The same with requests whose coordinates lie close to each other.
InitNearby == now = 0 /\ CacheInit /\ AnalyzeIdle /\ HistoryIdle /\ RankIdle

NextNearby ==
    \/ Arrive(NearbyRequests)
    \/ Serve
    \/ CacheTick

SpecNearby == InitNearby /\ [][NextNearby]_vars

\* one autocomplete call on any query and response
InitRank == now = 0 /\ RankInit /\ CacheInit /\ AnalyzeIdle /\ HistoryIdle

SpecRank == InitRank /\ [][Autocomplete]_vars

(***************************************************************************)
(* Claims about CacheManager, checked under SpecCache.                     *)
(***************************************************************************)

\* The completed set, if any, that last wrote the entry the current call is about.
LastSet == setLog[cacheOp.pairs]

\* C1: a get(P) whose read does not fail, issued while the entry written by
\* the most recent set(P, d) is at most ttl old, returns exactly d; issued
\* when that entry is older than ttl it returns absent and no entry for P is
\* left in the store; no get returns data of an entry older than ttl.
C1_GetHonoursTtl ==
    (cacheOp.kind = "get" /\ cacheOp.io = "ok") =>
        /\ (LastSet.done /\ now - LastSet.at <= ttl) =>
                (cacheOp.hit /\ cacheOp.data = LastSet.data)
        /\ (LastSet.done /\ now - LastSet.at > ttl) =>
                (~cacheOp.hit /\ cache_dir[cacheOp.key].state = "absent")
        /\ cacheOp.hit => (LastSet.done /\ now - LastSet.at <= ttl)

\* A get returns the data of an entry that is exactly ttl old.
C1_WitnessFresh ==
    /\ cacheOp.kind = "get" /\ cacheOp.io = "ok" /\ cacheOp.hit
    /\ LastSet.done /\ now - LastSet.at = ttl
    /\ cacheOp.data = "result_b"

\* A get finds the entry older than ttl: absent, and the file is gone.
C1_WitnessExpired ==
    /\ cacheOp.kind = "get" /\ cacheOp.io = "ok" /\ ~cacheOp.hit
    /\ LastSet.done /\ now - LastSet.at = ttl + 1
    /\ cache_dir[cacheOp.key].state = "absent"

\* C6: the key derived for a parameter set does not depend on the insertion
\* order of its pairs nor on the time: every get or set derives the key the
\* last completed set of the same name-value pairs derived, and so a get
\* within ttl returns what that set stored.
C6_KeyIgnoresInsertionOrder ==
    (cacheOp.kind \in {"get", "set"} /\ LastSet.done) =>
        /\ cacheOp.key = LastSet.key
        /\ (cacheOp.kind = "get" /\ cacheOp.io = "ok" /\ now - LastSet.at <= ttl) =>
                (cacheOp.hit /\ cacheOp.data = LastSet.data)

\* A get whose kwargs were built in another order than those of the set,
\* at a later time, returns the data the set stored.
C6_Witness ==
    /\ cacheOp.kind = "get" /\ cacheOp.hit /\ ~cacheOp.inOrder
    /\ LastSet.done /\ LastSet.inOrder /\ LastSet.at < now
    /\ cacheOp.key = LastSet.key /\ cacheOp.data = LastSet.data

\* C14: a failure of the store never changes more than the outcome of the
\* call: a get whose read fails, or that finds a corrupt record, returns
\* absent and leaves the store as it was; a set whose write fails is a
\* no-op, the store holds for every key what it held before the call.
C14_StoreFailuresAreNoOps ==
    [][/\ (/\ cacheOp'.kind = "get"
           /\ (cacheOp'.io = "fail" \/ cache_dir[cacheOp'.key].state = "corrupt"))
            => (~cacheOp'.hit /\ cache_dir' = cache_dir)
       /\ (cacheOp'.kind = "set" /\ cacheOp'.io # "ok") => cache_dir' = cache_dir
      ]_vars

\* The stored entries of a directory at time t that are older than ttl.
Overdue(dir, t) == {k \in Keys : dir[k].state = "valid" /\ t - dir[k].timestamp > ttl}

\* C16 (SpecCache): clear_expired deletes stored entries older than ttl only,
\* leaves every other file as it was, and returns the number of entries it
\* deleted; when no file operation of the call raised, it deletes every
\* stored entry older than ttl, so that none is left when it returns.
C16_ClearExpiredDeletesOverdue ==
    [][cacheOp'.kind = "clear_expired" =>
        LET deleted == {k \in Keys : cache_dir[k] # cache_dir'[k]}
        IN  /\ \A k \in deleted : cache_dir'[k] = NoFile
            /\ deleted \subseteq Overdue(cache_dir, now)
            /\ cacheOp'.count = Cardinality(deleted)
            /\ cacheOp'.io = "ok" =>
                    /\ deleted = Overdue(cache_dir, now)
                    /\ Overdue(cache_dir', now') = {}
      ]_vars

\* clear_expired has deleted an entry and left one that is exactly ttl old.
C16_Witness ==
    /\ cacheOp.kind = "clear_expired" /\ cacheOp.io = "ok"
    /\ cacheOp.count = 1
    /\ \E k \in Keys : cache_dir[k].state = "valid" /\ now - cache_dir[k].timestamp = ttl

\* C22 (SpecStale): no get deletes an entry that is not older than ttl, also
\* when a set on the same key comes between the get's read of an expired
\* record and its unlink; and once no get is under way, the record of the
\* last set of each parameter set is in the store while it is not older
\* than ttl.
C22_FreshEntrySurvivesGet ==
    [][/\ cacheOp'.kind = "get" =>
            \A k \in Keys :
                (cache_dir[k].state = "valid" /\ now - cache_dir[k].timestamp <= ttl)
                    => cache_dir'[k] = cache_dir[k]
       /\ reader'.pc = "idle" =>
            \A ps \in ParamSets :
                (setLog'[ps].done /\ now' - setLog'[ps].at <= ttl)
                    => cache_dir'[setLog'[ps].key]
                            = CacheFile(setLog'[ps].at, setLog'[ps].data)
      ]_vars

(***************************************************************************)
(* Claims about analyze_market, checked under SpecAnalyze.                 *)
(***************************************************************************)

\* A result has been returned, computed or from the cache.
Analyzed == pc \in {"done", "hit"}

BreakdownTotal ==
    result.demand_breakdown["Office"] + result.demand_breakdown["Students"]
    + result.demand_breakdown["Residential"] + result.demand_breakdown["Transport"]

\* C3: in every result, the four demand_breakdown counts sum to
\* demand_count, for an empty frame, up to 1000 rows, more than 1000 rows,
\* and whether or not the demand processing fails part-way.
C3_BreakdownSumsToDemandCount ==
    Analyzed => BreakdownTotal = result.demand_count

\* C4: the verdict follows the precedence: no supply and some demand gives
\* "uncontested"; otherwise a score above 5.0 gives "high potential";
\* otherwise a score above 2.0 gives "balanced"; otherwise "saturated"; each
\* verdict has its fixed color.
C4_VerdictPrecedence ==
    Analyzed =>
        /\ (result.supply_count = 0 /\ result.demand_count > 0)
                => result.verdict = VerdictUncontested
        /\ (~(result.supply_count = 0 /\ result.demand_count > 0) /\ result.score > 500)
                => result.verdict = VerdictHighPotential
        /\ (~(result.supply_count = 0 /\ result.demand_count > 0)
            /\ result.score <= 500 /\ result.score > 200)
                => result.verdict = VerdictBalanced
        /\ (~(result.supply_count = 0 /\ result.demand_count > 0) /\ result.score <= 200)
                => result.verdict = VerdictSaturated
        /\ <<result.verdict, result.verdict_color>> \in
                {<<VerdictUncontested, "#2980b9">>, <<VerdictHighPotential, "#27ae60">>,
                 <<VerdictBalanced, "#f39c12">>, <<VerdictSaturated, "#c0392b">>}

\* A score of exactly 5.0 with supply present: "balanced".
C4_Witness ==
    /\ Analyzed /\ result.supply_count > 0 /\ result.score = 500
    /\ result.verdict = VerdictBalanced

\* C5: growth_status is "booming" iff construction_count > 5, "growing" iff
\* 2 < construction_count <= 5, "stable" iff construction_count <= 2; a
\* failed construction fetch gives "stable" and a count of 0.
C5_GrowthThresholds ==
    Analyzed =>
        /\ result.growth_status = GrowthBooming <=> result.construction_count > 5
        /\ result.growth_status = GrowthGrowing <=>
                (2 < result.construction_count /\ result.construction_count <= 5)
        /\ result.growth_status = GrowthStable <=> result.construction_count <= 2
        /\ ~fetched.construction.raises =>
                result.construction_count = fetched.construction.n
        /\ fetched.construction.raises =>
                (result.growth_status = GrowthStable /\ result.construction_count = 0)

\* Six construction sites: "booming".
C5_Witness ==
    /\ Analyzed /\ ~fetched.construction.raises
    /\ result.construction_count = 6 /\ result.growth_status = GrowthBooming


\* max(supply_count, 1)
FlooredSupply == IF result.supply_count > 1 THEN result.supply_count ELSE 1

\* C11: the score of every result is demand_count / max(supply_count, 1)
\* rounded to two decimals, that is the hundredth nearest to the quotient;
\* with no supply it is demand_count itself; it is never negative (and the
\* divisor is never zero).
C11_ScoreIsFlooredQuotient ==
    Analyzed =>
        /\ result.supply_count >= 0 /\ result.demand_count >= 0
        /\ FlooredSupply >= 1
        /\ 2 * (100 * result.demand_count - result.score * FlooredSupply) <= FlooredSupply
        /\ 2 * (result.score * FlooredSupply - 100 * result.demand_count) <= FlooredSupply
        /\ result.supply_count = 0 => result.score = 100 * result.demand_count
        /\ result.score >= 0

\* No supply and 1000 demand points: the divisor is 1, the score 1000.0.
C11_Witness ==
    /\ Analyzed
    /\ result.supply_count = 0 /\ result.demand_count = 1000 /\ result.score = 100000

\* The rows the demand fetch gave.
FetchedDemandRows ==
    fetched.demand.rows[<<"nan", "nan", "nan", "station">>]
    + fetched.demand.rows[<<"nan", "nan", "company", "nan">>]
    + fetched.demand.rows[<<"nan", "office", "yes", "nan">>]
    + fetched.demand.rows[<<"university", "residential", "nan", "nan">>]
    + fetched.demand.bulk

\* C12: whatever combination of the supply, demand and construction fetches
\* fails, the result is well formed (its ten fields, a verdict of the four
\* labels, a growth status of the three); a facet whose fetch and processing
\* went through carries the values of its own data, a facet that failed is
\* zeroed (count 0, no points, "stable"), whatever became of the other two.
C12_FetchesAreIndependent ==
    Analyzed =>
        /\ DOMAIN result =
                {"score", "verdict", "verdict_color", "supply_count", "demand_count",
                 "demand_breakdown", "growth_status", "construction_count",
                 "supply_points", "demand_points"}
        /\ result.verdict \in
                {VerdictUncontested, VerdictHighPotential, VerdictBalanced, VerdictSaturated}
        /\ result.growth_status \in {GrowthStable, GrowthGrowing, GrowthBooming}
        /\ IF fetched.supply.raises
           THEN result.supply_count = 0 /\ result.supply_points = 0
           ELSE /\ result.supply_count = fetched.supply.valid
                /\ result.supply_points = fetched.supply.valid
        /\ IF fetched.demand.raises # "none"
           THEN result.demand_count = 0 /\ result.demand_points = 0
           ELSE /\ result.demand_count =
                     (IF FetchedDemandRows > 1000 THEN 1000 ELSE FetchedDemandRows)
                /\ result.demand_points = result.demand_count
                /\ BreakdownTotal = FetchedDemandRows
        /\ fetched.demand.raises = "fetch" => BreakdownTotal = 0
        /\ IF fetched.construction.raises
           THEN result.construction_count = 0 /\ result.growth_status = GrowthStable
           ELSE result.construction_count = fetched.construction.n

\* The supply and construction fetches fail, the demand fetch gives four
\* rows: a result with no supply, four demand points and "stable".
C12_Witness ==
    /\ Analyzed
    /\ fetched.supply.raises /\ fetched.construction.raises
    /\ fetched.demand.raises = "none" /\ FetchedDemandRows = 4
    /\ result.supply_count = 0 /\ result.demand_count = 4
    /\ result.construction_count = 0 /\ result.verdict = VerdictUncontested

\* C17 (SpecAnalyze): when the demand step runs to its end on a frame of n
\* rows, every row is counted in exactly one segment, that of its first
\* matching tag value, Residential when none matches; the four counts are
\* taken over the whole frame and total n, also when n > 1000, and the list
\* of demand points kept has min(n, 1000) elements.
C17_BreakdownOverFullSet ==
    (Analyzed /\ fetched.demand.raises = "none") =>
        /\ result.demand_breakdown["Office"]
                = fetched.demand.rows[<<"nan", "office", "yes", "nan">>]
        /\ result.demand_breakdown["Students"]
                = fetched.demand.rows[<<"university", "residential", "nan", "nan">>]
        /\ result.demand_breakdown["Transport"]
                = fetched.demand.rows[<<"nan", "nan", "nan", "station">>]
        /\ result.demand_breakdown["Residential"]
                = fetched.demand.rows[<<"nan", "nan", "company", "nan">>]
                  + fetched.demand.bulk
        /\ BreakdownTotal = FetchedDemandRows
        /\ result.demand_points
                = (IF FetchedDemandRows < 1000 THEN FetchedDemandRows ELSE 1000)

\* A frame of more than 1000 rows, one of them with two matching tag values:
\* the counts total the frame, 1000 points are kept.
C17_Witness ==
    /\ Analyzed /\ fetched.demand.raises = "none"
    /\ FetchedDemandRows > 1000
    /\ fetched.demand.rows[<<"university", "residential", "nan", "nan">>] = 1
    /\ BreakdownTotal = FetchedDemandRows
    /\ result.demand_points = 1000

(***************************************************************************)
(* Claims about sequences of analyze_market calls, checked under SpecServe. *)
(***************************************************************************)

\* The step is a run of the handler on the request that arrived.
Handled == pc = "start" /\ pc' # "start"

\* The cache file of the request (by its rounded parameters), before the call.
RequestKey == GenerateKey(cache_key_params(request))

\* The cache holds an entry for the request that is not older than ttl.
FreshEntry ==
    /\ cache_dir[RequestKey].state = "valid"
    /\ now - cache_dir[RequestKey].timestamp <= ttl

\* C21 (SpecServe): a call that finds a fresh cache entry returns the cached
\* result and changes neither the cache nor the history log; a call that
\* finds none computes a result, writes it to the cache under the request's
\* key and appends one entry for the request to the history; the history
\* changes in no other step, so each entry stems from one cache miss.
C21_CacheAside ==
    [][/\ Handled =>
            IF FreshEntry
            THEN /\ pc' = "hit"
                 /\ result' = cache_dir[RequestKey].data
                 /\ cache_dir' = cache_dir
                 /\ history_file' = history_file
            ELSE /\ pc' = "done"
                 /\ result' = AnalysisResult(fetched.supply, fetched.demand,
                                             fetched.construction)
                 /\ cache_dir' = [cache_dir EXCEPT ![RequestKey] = CacheFile(now, result')]
                 /\ history_file'.log =
                        Append(history_file.log,
                               Entry(request.lat, request.lon, request.business_type,
                                     request.radius, result', now))
       /\ history_file' # history_file => (Handled /\ pc' = "done")
      ]_vars

\* A call has hit the cache after an earlier one missed: one history entry.
C21_Witness ==
    /\ pc = "hit" /\ cacheOp.kind = "get" /\ cacheOp.hit
    /\ Len(history_file.log) = 1
    /\ result.score = history_file.log[1].result.score

\* One of the three fetches of the call raises.
SomeFetchFails ==
    fetched.supply.raises \/ fetched.demand.raises # "none" \/ fetched.construction.raises

\* The result of a call whose supply and construction fetches raised.
ZeroFilled(res) ==
    /\ res.supply_count = 0 /\ res.supply_points = 0
    /\ res.construction_count = 0 /\ res.growth_status = GrowthStable

\* C23 (SpecServe): a cache-miss call during which fetches fail writes its
\* zero-filled result to the cache and appends it to the history like any
\* other; a later call with the same key, while that entry is not older
\* than ttl, returns the zero-filled result as stored, whatever the fetches
\* would give by then, and stores nothing.
C23_DegradedResultIsCached ==
    [][Handled =>
        /\ (~FreshEntry /\ SomeFetchFails) =>
                /\ fetched.supply.raises =>
                        result'.supply_count = 0 /\ result'.supply_points = 0
                /\ fetched.demand.raises # "none" =>
                        result'.demand_count = 0 /\ result'.demand_points = 0
                /\ fetched.construction.raises =>
                        /\ result'.construction_count = 0
                        /\ result'.growth_status = GrowthStable
                /\ cache_dir'[RequestKey] = CacheFile(now, result')
                /\ Len(history_file'.log) = Len(history_file.log) + 1
                /\ history_file'.log[Len(history_file'.log)].result.supply_count
                        = result'.supply_count
                /\ history_file'.log[Len(history_file'.log)].result.construction_count
                        = result'.construction_count
        /\ (FreshEntry /\ ZeroFilled(cache_dir[RequestKey].data)) =>
                /\ pc' = "hit"
                /\ result' = cache_dir[RequestKey].data
                /\ cache_dir' = cache_dir
                /\ history_file' = history_file
      ]_vars

\* A call returns the zero-filled result stored one ttl earlier, although
\* none of its own fetches would raise.
C23_Witness ==
    /\ pc = "hit" /\ ZeroFilled(result)
    /\ ~SomeFetchFails
    /\ now - cache_dir[RequestKey].timestamp = ttl
    /\ cache_dir[RequestKey].data = result
    /\ Len(history_file.log) = 1 /\ history_file.log[1].result.supply_count = 0

\* Python's == on two rounded coordinates: -0.0 == 0.0.
SameFloat(f, g) == f.units = g.units /\ (f.units = 0 \/ f.negative = g.negative)

\* Two requests agree in the four fields of the key: latitude and longitude
\* rounded to 4 decimals, business type and radius.
SameKeyFields(r, s) ==
    /\ SameFloat(Round4(r.lat), Round4(s.lat))
    /\ SameFloat(Round4(r.lon), Round4(s.lon))
    /\ r.business_type = s.business_type
    /\ r.radius = s.radius

\* Requests that differ from one another in one field of the key each.
KeyFieldVariants ==
    {[lat |-> 137563004, lon |-> 1005018000, business_type |-> "Cafe", radius |-> 1000],
     [lat |-> 137564000, lon |-> 1005018000, business_type |-> "Cafe", radius |-> 1000],
     [lat |-> 137563004, lon |-> 1005019000, business_type |-> "Cafe", radius |-> 1000],
     [lat |-> 137563004, lon |-> 1005018000, business_type |-> "Pharmacy", radius |-> 1000],
     [lat |-> 137563004, lon |-> 1005018000, business_type |-> "Cafe", radius |-> 500]}

\* C24 (SpecNearby): the cache key is built from the coordinates rounded to
\* 4 decimals, the business type and the radius, the history keeps the
\* coordinates rounded to 6 decimals. A call whose request agrees in the
\* four key fields with an earlier request whose entry is not older than
\* ttl returns that entry's result and adds no history entry, although its
\* coordinates differ from the earlier ones; requests that differ in one of
\* the four fields have different keys and do not share an entry.
C24_NearbyRequestsShareAnEntry ==
    [][/\ Handled =>
            /\ \A r \in NearbyRequests :
                    (/\ SameKeyFields(r, request)
                     /\ cache_dir[GenerateKey(cache_key_params(r))].state = "valid"
                     /\ now - cache_dir[GenerateKey(cache_key_params(r))].timestamp <= ttl)
                    => /\ pc' = "hit"
                       /\ result' = cache_dir[GenerateKey(cache_key_params(r))].data
                       /\ history_file' = history_file
            /\ pc' = "done" =>
                    /\ history_file'.log[Len(history_file'.log)].location
                            = [lat |-> Round6(request.lat), lon |-> Round6(request.lon)]
                    /\ \A r \in NearbyRequests :
                            ~SameKeyFields(r, request) =>
                                cache_dir'[GenerateKey(cache_key_params(r))]
                                    = cache_dir[GenerateKey(cache_key_params(r))]
       /\ \A r, s \in NearbyRequests \cup KeyFieldVariants :
                ~SameKeyFields(r, s)
                    => GenerateKey(cache_key_params(r)) # GenerateKey(cache_key_params(s))
      ]_vars

(***************************************************************************)
(* Claims about HistoryManager.                                            *)
(***************************************************************************)

\* The last n entries of a sequence (all of it when shorter).
LastEntries(s, n) == SubSeq(s, IF Len(s) > n THEN Len(s) - n + 1 ELSE 1, Len(s))

RECURSIVE Reversed(_)
Reversed(s) == IF s = <<>> THEN <<>> ELSE Append(Reversed(Tail(s)), Head(s))

\* C2 (SpecHistory): after each append the log holds at most 100 entries,
\* and, as long as no load or save of the log has failed, it is exactly the
\* most recent min(n, 100) appended entries in insertion order.
C2_LogIsLastHundred ==
    /\ history_file.state = "valid" => Len(history_file.log) <= HistoryCap
    /\ ~faulted =>
        /\ history_file.state = "valid"
        /\ history_file.log = LastEntries(appended, HistoryCap)

\* An append to a full log: the oldest entry is evicted, the new one is last.
C2_Witness ==
    /\ histOp.kind = "append" /\ ~faulted
    /\ Len(appended) = HistoryCap + 2
    /\ Len(history_file.log) = HistoryCap
    /\ history_file.log[HistoryCap] = appended[HistoryCap + 2]
    /\ history_file.log[1] = appended[3]

\* C10 (SpecQuery): query(limit, business_type) returns the min(limit, m)
\* most recently appended of the m entries matching business_type, newest
\* first, also among entries of equal timestamp, and no entry of another
\* business type.
C10_QueryReturnsMostRecent ==
    (histOp.kind = "query" /\ histOp.io = "ok") =>
        /\ histOp.returned =
             Slice(Reversed(OfType(history_file.log, histOp.business_type)), histOp.limit)
        /\ \A i \in 1..Len(histOp.returned) :
             histOp.business_type # "" =>
                histOp.returned[i].business_type = histOp.business_type

\* C15 (SpecQuery): in a run of whole (non-interleaved) history operations,
\* query, query_near and statistics leave the log as it was, and an append
\* keeps every stored entry unmodified and in place, except the oldest ones
\* it evicts when the length would exceed 100; entries leave the log no
\* other way than that or a clear.
C15_EntriesLeaveOnlyByClearOrEviction ==
    [][/\ histOp'.kind \in {"query", "query_near", "statistics"}
            => history_file' = history_file
       /\ (histOp'.kind = "append" /\ history_file.state = "valid") =>
            /\ history_file'.state = "valid"
            /\ \E k \in 0..Len(history_file.log) :
                 /\ k > 0 => Len(history_file.log) + 1 > HistoryCap
                 /\ Len(history_file'.log) >= Len(history_file.log) - k
                 /\ SubSeq(history_file'.log, 1, Len(history_file.log) - k)
                        = SubSeq(history_file.log, k + 1, Len(history_file.log))
      ]_vars

\* The number of positions of a sequence that hold e.
Copies(s, e) == Cardinality({i \in 1..Len(s) : s[i] = e})

\* e lies in the box of the last query_near call, edges included.
InBox(e) ==
    /\ e.location.lat >= histOp.lat - histOp.tolerance
    /\ e.location.lat <= histOp.lat + histOp.tolerance
    /\ e.location.lon >= histOp.lon - histOp.tolerance
    /\ e.location.lon <= histOp.lon + histOp.tolerance

\* C18 (SpecLookup): query_near(lat, lon, tolerance) returns exactly the stored
\* entries whose latitude and longitude each differ from the given ones by
\* at most tolerance (the boundary counts as inside), every one of them once,
\* ordered newest first.
C18_NearReturnsEntriesInBox ==
    (histOp.kind = "query_near" /\ histOp.io = "ok") =>
        /\ \A i \in 1..Len(histOp.returned) :
              /\ InBox(histOp.returned[i])
              /\ Copies(histOp.returned, histOp.returned[i])
                    = Copies(history_file.log, histOp.returned[i])
        /\ \A i \in 1..Len(history_file.log) :
              InBox(history_file.log[i]) => Copies(histOp.returned, history_file.log[i]) > 0
        /\ \A i \in 1..(Len(histOp.returned) - 1) :
              histOp.returned[i].timestamp >= histOp.returned[i + 1].timestamp

\* A query at (13.7560, 100.5020): with tolerance 0.01 the entries at
\* (13.7563, 100.5018) come back, a newer one before an older one.
C18_Witness ==
    /\ histOp.kind = "query_near" /\ histOp.io = "ok"
    /\ histOp.lat = 137560000 /\ histOp.lon = 1005020000 /\ histOp.tolerance = 100000
    /\ Len(histOp.returned) >= 2
    /\ histOp.returned[1].location = [lat |-> 137563000, lon |-> 1005018000]
    /\ histOp.returned[1].timestamp > histOp.returned[2].timestamp

\* A box of tolerance 1e-6 around latitude 13.756301: the stored latitudes
\* 13.7563 and 13.756302 lie on its edges, and the entries are returned.
C18_WitnessEdge ==
    /\ histOp.kind = "query_near" /\ histOp.io = "ok"
    /\ histOp.lat = 137563010 /\ histOp.lon = 1005018000 /\ histOp.tolerance = 10
    /\ Len(histOp.returned) > 0

RECURSIVE SumCounts(_)
SumCounts(business_types) ==
    IF business_types = <<>> THEN 0
    ELSE business_types[1].count + SumCounts(Tail(business_types))

\* C19 (SpecLookup): statistics always returns; on an empty log total is 0,
\* the histogram is empty, the average score is 0 and there is no most
\* frequent type; on a non-empty log total is the length of the log, the
\* histogram counts every business type of the log and sums to total, the
\* most frequent type has the greatest count, and first and last are the
\* timestamps of the oldest and the newest stored entry.
C19_StatisticsOverFullLog ==
    /\ (histOp.kind = "statistics" /\ histOp.io = "fail") => histOp.stats = EmptyStatistics
    /\ (histOp.kind = "statistics" /\ histOp.io = "ok") =>
        IF history_file.log = <<>>
        THEN /\ histOp.stats.total_analyses = 0
             /\ histOp.stats.business_types = <<>>
             /\ histOp.stats.average_score = 0
             /\ histOp.stats.most_analyzed_type = NoType
        ELSE /\ histOp.stats.total_analyses = Len(history_file.log)
             /\ SumCounts(histOp.stats.business_types) = Len(history_file.log)
             /\ \A i \in 1..Len(histOp.stats.business_types) :
                  histOp.stats.business_types[i].count =
                    Cardinality({j \in 1..Len(history_file.log) :
                        history_file.log[j].business_type
                            = histOp.stats.business_types[i].type})
             /\ \E i \in 1..Len(histOp.stats.business_types) :
                  /\ histOp.stats.business_types[i].type = histOp.stats.most_analyzed_type
                  /\ \A j \in 1..Len(histOp.stats.business_types) :
                        histOp.stats.business_types[j].count
                            <= histOp.stats.business_types[i].count
             /\ histOp.stats.date_range.present
             /\ histOp.stats.date_range.first = history_file.log[1].timestamp
             /\ histOp.stats.date_range.last
                    = history_file.log[Len(history_file.log)].timestamp
             /\ \A j \in 1..Len(history_file.log) :
                  /\ histOp.stats.date_range.first <= history_file.log[j].timestamp
                  /\ histOp.stats.date_range.last >= history_file.log[j].timestamp

\* Statistics of a log of two business types, one more frequent than the
\* other, whose entries were stored at different times.
C19_Witness ==
    /\ histOp.kind = "statistics" /\ histOp.io = "ok"
    /\ Len(histOp.stats.business_types) = 2
    /\ histOp.stats.business_types[1].count # histOp.stats.business_types[2].count
    /\ histOp.stats.date_range.first < histOp.stats.date_range.last

\* Statistics of an empty log.
C19_WitnessEmpty ==
    /\ histOp.kind = "statistics" /\ histOp.io = "ok"
    /\ history_file = HistoryFile(<<>>)
    /\ histOp.stats = EmptyStatistics

\* Both side-by-side add_analysis calls have saved.
BothSaved == \A p \in Procs : writers[p].pc = "saved"

\* Both calls loaded the log before either saved.
Interleaved == schedule[1][2] = "load" /\ schedule[2][2] = "load"

\* C20 (SpecRace): of two add_analysis calls that both load the log before
\* either saves, the one that saves last overwrites the other's save, and
\* the final log holds the log they loaded plus the last saver's entry only:
\* the other entry is lost; when one call saves before the other loads,
\* the final log holds both entries, in the order of the calls.
C20_LostUpdateWhenInterleaved ==
    BothSaved =>
        LET first == schedule[3][1]
            last == schedule[4][1]
        IN  IF Interleaved
            THEN /\ history_file.log
                        = LastEntries(Append(appended, writers[last].entry), HistoryCap)
                 /\ \A i \in 1..Len(history_file.log) :
                        history_file.log[i] # writers[first].entry
            ELSE history_file.log
                    = LastEntries(appended \o <<writers[schedule[1][1]].entry,
                                                writers[last].entry>>, HistoryCap)

\* Both calls loaded a two-entry log before either saved: the final log has
\* three entries, the entry of the call that saved first is not among them.
C20_Witness ==
    /\ BothSaved /\ Interleaved
    /\ Len(appended) = 2 /\ Len(history_file.log) = 3
    /\ history_file.log[3] = writers[schedule[4][1]].entry
    /\ \A i \in 1..3 : history_file.log[i] # writers[schedule[3][1]].entry

(***************************************************************************)
(* Claims about autocomplete, checked under SpecRank.                      *)
(***************************************************************************)

Positions == 1..Len(response.data)

\* The call is over, by whichever return.
RankDone == rankPc \in {"returned", "caught", "bad_status"}

\* The items the loop went through: those up to the first one that raised.
Processed == {i \in Positions : \A j \in 1..i : Outcome(response.data[j]) # "raise"}

SingleComponent(name) == \A i \in 1..Len(name) : name[i] # ","

\* (a) an administrative boundary of a country whose display name is one
\* comma-delimited component
IsBareCountry(c) ==
    /\ c.class = "boundary" /\ c.type = "administrative"
    /\ c.address_country /\ SingleComponent(c.display_name)

\* (b) a sea, an ocean or a continent, by class and type
IsSeaOceanContinent(c) ==
    c.class \in {"natural", "waterway"} /\ c.type \in {"sea", "ocean", "continent"}

IsExcludedCandidate(c) == IsBareCountry(c) \/ IsSeaOceanContinent(c)

\* What the caller sees of the i-th candidate, were it returned.
Shown(i) ==
    [display_name |-> response.data[i].display_name,
     lat |-> Float(response.data[i].lat), lon |-> Float(response.data[i].lon)]

IsReturned(i) == \E k \in 1..Len(suggestions) : suggestions[k] = Shown(i)

IsScored(i) ==
    \E k \in 1..Len(scored_results) :
        /\ scored_results[k].lat = Float(response.data[i].lat)
        /\ scored_results[k].display_name = response.data[i].display_name

\* The place in the response of a scored candidate.
InputIndex(r) == CHOOSE i \in Positions : Float(response.data[i].lat) = r.lat

Survivors == SelectSeq(response.data, LAMBDA c : ~IsExcludedCandidate(c))

\* C8: the survivors are returned by total score descending, candidates of
\* equal score in their input order; the output is the first 8 of that
\* order, min(8, number of survivors) long, and each returned item carries
\* display_name, lat and lon only.
C8_SortedStableTopEight ==
    rankPc = "returned" =>
        /\ Len(scored_results) = Len(Survivors)
        /\ \A i \in Positions : ~IsExcludedCandidate(response.data[i]) => IsScored(i)
        /\ \A k \in 1..Len(scored_results) :
                scored_results[k].score
                    = ItemScore(response.data[InputIndex(scored_results[k])], query)
        /\ \A j, k \in 1..Len(scored_results) :
                j < k =>
                    \/ scored_results[j].score > scored_results[k].score
                    \/ /\ scored_results[j].score = scored_results[k].score
                       /\ InputIndex(scored_results[j]) < InputIndex(scored_results[k])
        /\ Len(suggestions) = (IF Len(Survivors) < 8 THEN Len(Survivors) ELSE 8)
        /\ \A k \in 1..Len(suggestions) :
                /\ DOMAIN suggestions[k] = {"display_name", "lat", "lon"}
                /\ suggestions[k].display_name = scored_results[k].display_name
                /\ suggestions[k].lat = scored_results[k].lat
                /\ suggestions[k].lon = scored_results[k].lon

\* More than 8 survivors, with two of equal score among the first 8 and a
\* ninth that is cut off.
C8_Witness ==
    /\ rankPc = "returned"
    /\ Len(scored_results) > 8 /\ Len(suggestions) = 8
    /\ \E j, k \in 1..8 : j < k /\ scored_results[j].score = scored_results[k].score
    /\ scored_results[8].score = scored_results[9].score

\* The name-match bonus a scored candidate got: its score less the priority
\* of its class and type and less 20 times its importance.
BonusOf(r) ==
    LET c == response.data[InputIndex(r)]
    IN (r.score - 100 * Priority(c.class, c.type) - 20 * ImportanceOf(c)) \div 100

IsPrefix(p, s) == Len(p) <= Len(s) /\ \A i \in 1..Len(p) : s[i] = p[i]

Occurs(p, s) == \E off \in 0..(Len(s) - Len(p)) : \A i \in 1..Len(p) : s[off + i] = p[i]

FirstSegment(s) ==
    IF SingleComponent(s) THEN s
    ELSE SubSeq(s, 1, (CHOOSE i \in 1..Len(s) :
                            s[i] = "," /\ \A j \in 1..(i - 1) : s[j] # ",") - 1)

\* C9: every scored candidate gets exactly one name-match bonus: 30 if the
\* lower-cased display name starts with the lower-cased query; else 20 if
\* the query occurs in the first comma-delimited segment; else 10 if it
\* occurs anywhere in the display name; else 0; never a sum of these.
C9_OneNameBonus ==
    RankDone =>
        \A k \in 1..Len(scored_results) :
            LET name == Lower(response.data[InputIndex(scored_results[k])].display_name)
                q == Lower(query)
                bonus == BonusOf(scored_results[k])
            IN /\ bonus \in {0, 10, 20, 30}
               /\ bonus = 30 <=> IsPrefix(q, name)
               /\ bonus = 20 <=> (~IsPrefix(q, name) /\ Occurs(q, FirstSegment(name)))
               /\ bonus = 10 <=>
                    (~IsPrefix(q, name) /\ ~Occurs(q, FirstSegment(name)) /\ Occurs(q, name))

\* One call gives a bonus of 30 to a name the query starts, where the query
\* also occurs in the first segment and in the whole name, 20 to a name
\* whose first segment holds the query further in, and 0 to a third.
C9_Witness ==
    /\ rankPc = "returned"
    /\ \E k \in 1..Len(scored_results) :
            /\ BonusOf(scored_results[k]) = 30
            /\ Occurs(Lower(query), FirstSegment(Lower(scored_results[k].display_name)))
            /\ query # <<>>
    /\ \E k \in 1..Len(scored_results) : BonusOf(scored_results[k]) = 20
    /\ \E k \in 1..Len(scored_results) : BonusOf(scored_results[k]) = 0

\* A candidate with a display name, parsable coordinates and an importance
\* that float() takes.
IsWellFormed(c) ==
    /\ c.display_name # Missing
    /\ c.importance.kind # "null"
    /\ Float(c.lat) # NotANumber /\ Float(c.lon) # NotANumber

\* The well-formed candidates the exclusion pass keeps.
GoodPositions ==
    {i \in Positions :
        IsWellFormed(response.data[i]) /\ ~IsExcludedCandidate(response.data[i])}

\* C13: a malformed candidate is skipped and every well-formed, non-excluded
\* candidate of the same list is still scored and returned (the best 8 of
\* them); the result is empty only when the response as a whole has failed
\* or holds no such candidate.
C13_MalformedCandidateSkipped ==
    (RankDone /\ response.status_code = 200) =>
        /\ Len(suggestions) =
                (IF Cardinality(GoodPositions) < 8 THEN Cardinality(GoodPositions) ELSE 8)
        /\ Cardinality(GoodPositions) <= 8 => \A i \in GoodPositions : IsReturned(i)
        /\ \A i \in Positions : ~IsWellFormed(response.data[i]) => ~IsReturned(i)


====
